---- MODULE Spec2Model ----
(***************************************************************************)
(* Model of the two QA scripts of notion/qa:                                *)
(*   match-screenshot.py  (match_template, load_image)                      *)
(*   smart-capture.py     (analyze_capture_requirements and its helpers)    *)
(*                                                                          *)
(* An image is modelled by its decoded shape <<width, height>>; pixel       *)
(* contents are abstracted to what the library calls return: the score and  *)
(* location of cv2.matchTemplate/minMaxLoc and the pixel counts of the      *)
(* header heuristic are drawn nondeterministically from their ranges.       *)
(* Scores are kept in hundredths (0.3 is 30, -1 is -100) and template       *)
(* scale factors in percent (0.75 is 75), so that int(t * s) is             *)
(* (t * s) \div 100; on the modelled sizes the double-precision product     *)
(* truncates to the same integer.                                           *)
(* Python's None is the empty tuple and a present value v is <<v>>.         *)
(***************************************************************************)
EXTENDS Integers, Sequences, FiniteSets, TLC

VARIABLES
    \* ---- match-screenshot.py: arguments of match_template
    fullFile,              \* what cv2.imread(full_page_path) yields: None or <<shape>>
    template_path_or_url,  \* the --template argument
    tmplFile,              \* what the template path / URL decodes to: None or <<shape>>
    viewport_width,        \* None or <<int>>
    viewport_height,       \* None or <<int>>
    \* ---- match-screenshot.py: locals of match_template
    pc,                    \* position in match_template
    full_page, template,   \* decoded buffers (None or <<shape>>)
    scaled,                \* shape of full_page_scaled, None before line 66
    i,                     \* index of the next tmpl_scale of the sweep
    best_match, best_val, best_scale, best_loc,
    result,                \* None, or <<dict>> once match_template returned
    written,               \* None, or <<shape>> of the image cv2.imwrite wrote
    raisedAt,              \* source line of the uncaught exception, 0 if none
    \* ---- smart-capture.py: arguments and locals of analyze_capture_requirements
    feedbucket_url,        \* the --feedbucket-url argument
    full_page_path,        \* the --full-page argument: None or <<str>>
    shotPil,               \* what PIL's Image.open yields for the screenshot (None: it raises)
    shotCv,                \* what cv2.imread yields for the screenshot: None or <<shape>>
    dims,                  \* None or <<[width, height]>>
    header_visible,        \* None or <<bool>>
    \* ---- both scripts run concurrently: the shared /tmp files
    script,                \* per process: which script it runs
    url,                   \* per process: the URL it was given
    files,                 \* per temporary path: None or <<url whose image it holds>>
    rpc,                   \* per process: position among its downloads and decodes
    seen,                  \* per process and download step: None or <<url it decoded>>
    \* ---- history of the sweep (not program state)
    outcomes,              \* per tried index: "skipped" | "matched" | "raised"
    hi                     \* None, or <<[score, scale, loc, w, h]>>: first maximum so far

vars == <<fullFile, template_path_or_url, tmplFile, viewport_width, viewport_height,
          pc, full_page, template, scaled, i,
          best_match, best_val, best_scale, best_loc,
          result, written, raisedAt,
          feedbucket_url, full_page_path, shotPil, shotCv, dims, header_visible,
          script, url, files, rpc, seen, outcomes, hi>>

matchVars == <<fullFile, template_path_or_url, tmplFile, viewport_width, viewport_height,
               scaled, i, best_match, best_val, best_scale, best_loc, written,
               outcomes, hi>>
captureVars == <<feedbucket_url, full_page_path, shotPil, shotCv, dims, header_visible>>
raceVars == <<script, url, files, rpc, seen>>

----------------------------------------------------------------------------
\* Bounds of the model
MaxPage == 4      \* full page width and height range over 1..MaxPage
MaxTmpl == 4      \* template width and height range over 1..MaxTmpl
MaxView == 2      \* --viewport-width ranges over 0..MaxView

None == <<>>
Some(v) == <<v>>
Min(a, b) == IF a < b THEN a ELSE b

\* key in dict
HasKey(r, k) == k \in DOMAIN r

Shapes(n) == {<<w, h>> : w \in 1..n, h \in 1..n}

FullPagePath == "full.png"
OutputPath == "out.png"
LocalTemplate == "tmpl.jpg"
RemoteTemplate == "http://feedbucket/tmpl.jpg"

LocalShot == "shot.jpg"
RemoteShot == "http://feedbucket/shot.jpg"

\* str.startswith('http') on the names of the model
StartsWithHttp(s) == s \in {RemoteTemplate, RemoteShot}

\* Python truthiness of an optional int argument
Truthy(v) == v # None /\ v[1] # 0

\* cv2.resize(img, dsize): the new shape, or None when it raises cv2.error
\* (an empty source or a dsize with a non-positive side)
Resize(img, dsize) ==
    IF img[1] > 0 /\ img[2] > 0 /\ dsize[1] > 0 /\ dsize[2] > 0 THEN Some(dsize) ELSE None

\* ---- match_template constants
Scales == <<50, 75, 90, 100, 110, 125, 150>>
InitBestVal == -100
InitBestScale == 100
ConfFloor == 30

\* scores cv2.minMaxLoc may report for TM_CCOEFF_NORMED (range [-1, 1])
ScoreSamples == {-100, 0, 29, 30, 100}

\* coordinates cv2.minMaxLoc may report along an axis with last valid offset n
LocSamples(n) == {0, n}

\* int(t * tmpl_scale)
ScaledSide(t, s) == (t * s) \div 100

\* line 56: if viewport_width and viewport_height
ShouldRescale(vw, vh) == Truthy(vw) /\ Truthy(vh)

\* mutant: the height is not scaled with the width
RescaledSizeKeepsHeight(fw, fh, vw) == <<vw, fh>>

\* lines 58-60: (new_w, new_h)
RescaledSize(fw, fh, vw) == <<vw, (fh * vw) \div fw>>

\* line 84: skip test of the sweep
SkipScale(stw, sth, sw, sh) == stw >= sw \/ sth >= sh

\* line 93: a new best
Better(max_val, bv) == max_val > bv

\* mutant: a score equal to the floor falls back too
UseFallbackAtFloor(bm, bv) == bm = None \/ bv <= ConfFloor

\* line 106: fallback test
UseFallback(bm, bv) == bm = None \/ bv < ConfFloor

\* mutant: the fallback crop is not clamped to the page
FallbackCropUnclamped(tw, th, sw, sh) == <<tw, th>>

\* lines 109-110: (crop_w, crop_h) of the fallback crop
FallbackCrop(tw, th, sw, sh) == <<Min(tw, sw), Min(th, sh)>>

\* mutant: the template error names the full page's path
TemplateErrorNamesFullPage(t) == [error |-> <<"Could not load template image", FullPagePath>>]

\* lines 47, 49: the error records
FullPageError == [error |-> <<"Could not load full page image", FullPagePath>>]
TemplateError(t) == [error |-> <<"Could not load template image", t>>]

\* lines 113-118: the fallback record
FallbackResult(bv) ==
    [success |-> TRUE, confidence |-> IF bv # 0 THEN bv ELSE 0,
     fallback |-> TRUE, output |-> OutputPath]

\* lines 136-143: the success record
SuccessResult(bv, x, y, w, h, bs) ==
    [success |-> TRUE, confidence |-> bv,
     match_location |-> [x |-> x, y |-> y],
     match_size |-> [width |-> w, height |-> h],
     template_scale |-> bs, output |-> OutputPath]

----------------------------------------------------------------------------
\* match_template, one invocation

MatchInit ==
    /\ fullFile \in {None} \cup {Some(s) : s \in Shapes(MaxPage)}
    /\ template_path_or_url \in {LocalTemplate, RemoteTemplate}
    /\ tmplFile \in {None} \cup {Some(s) : s \in Shapes(MaxTmpl)}
    /\ viewport_width \in {None} \cup {Some(v) : v \in 0..MaxView}
    /\ viewport_height \in {None, Some(0), Some(MaxView)}
    /\ pc = "start"
    /\ full_page = None /\ template = None /\ scaled = None
    /\ i = 1
    /\ best_match = None /\ best_val = InitBestVal
    /\ best_scale = InitBestScale /\ best_loc = None
    /\ result = None /\ written = None /\ raisedAt = 0
    /\ outcomes = <<>> /\ hi = None
    /\ feedbucket_url = None /\ full_page_path = None /\ shotPil = None
    /\ shotCv = None /\ dims = None /\ header_visible = None
    /\ script = None /\ url = None /\ files = None /\ rpc = None /\ seen = None

\* lines 43-49: both images are loaded, then checked. A URL template is
\* downloaded first; urlretrieve raising ends the call before any check.
LoadImages ==
    /\ pc = "start"
    /\ full_page' = fullFile
    /\ \E downloaded \in BOOLEAN :
         IF StartsWithHttp(template_path_or_url) /\ ~downloaded
         THEN /\ pc' = "raised" /\ raisedAt' = 17
              /\ UNCHANGED <<template, result>>
         ELSE /\ template' = tmplFile
              /\ raisedAt' = 0
              /\ IF full_page' = None
                 THEN pc' = "done" /\ result' = Some(FullPageError)
                 ELSE IF template' = None
                 THEN pc' = "done" /\ result' = Some(TemplateError(template_path_or_url))
                 ELSE pc' = "loaded" /\ result' = None
    /\ UNCHANGED <<fullFile, template_path_or_url, tmplFile, viewport_width,
                   viewport_height, scaled, i, best_match, best_val, best_scale,
                   best_loc, written, outcomes, hi, captureVars, raceVars>>

\* lines 52-66: the optional rescale of the full page
Rescale ==
    /\ pc = "loaded"
    /\ LET fw == full_page[1][1]
           fh == full_page[1][2]
       IN IF ShouldRescale(viewport_width, viewport_height)
          THEN LET r == Resize(full_page[1], RescaledSize(fw, fh, viewport_width[1]))
               IN IF r = None
                  THEN pc' = "raised" /\ raisedAt' = 61 /\ scaled' = None
                  ELSE pc' = "sweep" /\ raisedAt' = 0 /\ scaled' = r
          ELSE pc' = "sweep" /\ raisedAt' = 0 /\ scaled' = full_page
    /\ UNCHANGED <<fullFile, template_path_or_url, tmplFile, viewport_width,
                   viewport_height, full_page, template, i, best_match, best_val,
                   best_scale, best_loc, result, written, outcomes, hi,
                   captureVars, raceVars>>

\* lines 79-104: one iteration of the scale sweep
SweepStep ==
    /\ pc = "sweep" /\ i <= Len(Scales)
    /\ LET tmpl_scale == Scales[i]
           sw == scaled[1][1]
           sh == scaled[1][2]
           stw == ScaledSide(template[1][1], tmpl_scale)
           sth == ScaledSide(template[1][2], tmpl_scale)
       IN IF SkipScale(stw, sth, sw, sh)
          THEN /\ outcomes' = Append(outcomes, "skipped")
               /\ i' = i + 1
               /\ UNCHANGED <<pc, raisedAt, best_match, best_val, best_scale, best_loc, hi>>
          ELSE IF Resize(template[1], <<stw, sth>>) = None
          THEN /\ outcomes' = Append(outcomes, "raised")
               /\ pc' = "raised" /\ raisedAt' = 87
               /\ UNCHANGED <<i, best_match, best_val, best_scale, best_loc, hi>>
          ELSE \E max_val \in ScoreSamples, x \in LocSamples(sw - stw), y \in LocSamples(sh - sth) :
               /\ outcomes' = Append(outcomes, "matched")
               /\ i' = i + 1
               /\ UNCHANGED <<pc, raisedAt>>
               /\ hi' = IF hi = None \/ max_val > hi[1].score
                        THEN Some([score |-> max_val, scale |-> tmpl_scale,
                                   loc |-> <<x, y>>, w |-> stw, h |-> sth])
                        ELSE hi
               /\ IF Better(max_val, best_val)
                  THEN /\ best_val' = max_val
                       /\ best_scale' = tmpl_scale
                       /\ best_loc' = Some(<<x, y>>)
                       /\ best_match' = Some([x |-> x, y |-> y, width |-> stw,
                                              height |-> sth, confidence |-> max_val,
                                              template_scale |-> tmpl_scale])
                  ELSE UNCHANGED <<best_match, best_val, best_scale, best_loc>>
    /\ UNCHANGED <<fullFile, template_path_or_url, tmplFile, viewport_width,
                   viewport_height, full_page, template, scaled, result, written,
                   captureVars, raceVars>>

\* lines 106-143: fallback crop or matched crop, written to output_path
Finish ==
    /\ pc = "sweep" /\ i > Len(Scales)
    /\ LET tw == template[1][1]
           th == template[1][2]
           sw == scaled[1][1]
           sh == scaled[1][2]
       IN IF UseFallback(best_match, best_val)
          THEN /\ written' = Some(FallbackCrop(tw, th, sw, sh))
               /\ result' = Some(FallbackResult(best_val))
               /\ pc' = "done" /\ raisedAt' = 0
          ELSE LET x == best_loc[1][1]
                   y == best_loc[1][2]
                   w == ScaledSide(tw, best_scale)
                   h == ScaledSide(th, best_scale)
                   x2 == Min(x + w, sw)
                   y2 == Min(y + h, sh)
                   r == Resize(<<x2 - x, y2 - y>>, <<tw, th>>)
               IN IF r = None
                  THEN /\ pc' = "raised" /\ raisedAt' = 132
                       /\ UNCHANGED <<written, result>>
                  ELSE /\ written' = r
                       /\ result' = Some(SuccessResult(best_val, x, y, w, h, best_scale))
                       /\ pc' = "done" /\ raisedAt' = 0
    /\ UNCHANGED <<fullFile, template_path_or_url, tmplFile, viewport_width,
                   viewport_height, full_page, template, scaled, i, best_match,
                   best_val, best_scale, best_loc, outcomes, hi, captureVars, raceVars>>

MatchNext == LoadImages \/ Rescale \/ SweepStep \/ Finish

SpecMatch == MatchInit /\ [][MatchNext]_vars

----------------------------------------------------------------------------
\* Properties of match_template (checked under SpecMatch)

BothDecoded == full_page # None /\ template # None
Returned == pc = "done" /\ result # None
SweepOver == pc \in {"sweep", "done"} /\ scaled # None /\ i > Len(Scales)

\* the resized template is larger than the page in either dimension at scale k
LargerAt(k) ==
    \/ ScaledSide(template[1][1], Scales[k]) > scaled[1][1]
    \/ ScaledSide(template[1][2], Scales[k]) > scaled[1][2]

\* the resized template has no empty side at scale k
NonEmptyAt(k) ==
    /\ ScaledSide(template[1][1], Scales[k]) > 0
    /\ ScaledSide(template[1][2], Scales[k]) > 0

AllScalesExceed ==
    /\ BothDecoded /\ scaled # None
    /\ \A k \in 1..Len(Scales) : LargerAt(k)

\* C1: every output image match_template writes has exactly the template's
\* width and height, on the normal path and on the fallback path.
C1_CropHasTemplateSize ==
    written # None => written[1] = template[1]

DecodeFailed ==
    /\ pc # "start"
    /\ fullFile = None \/ (raisedAt # 17 /\ tmplFile = None)

ErrorOnlyNaming(path) ==
    /\ Returned
    /\ DOMAIN result[1] = {"error"}
    /\ result[1].error[2] = path
    /\ written = None /\ scaled = None /\ outcomes = <<>> /\ hi = None

\* C4 as stated: whenever decoding of the full page or of the template fails,
\* match_template does not raise and returns only an error naming the path
\* that failed, writing nothing and matching nothing.
C4_DecodeFailureNeverRaises ==
    DecodeFailed =>
        /\ pc # "raised"
        /\ ErrorOnlyNaming(IF fullFile = None THEN FullPagePath
                                              ELSE template_path_or_url)

\* C4 amended: the same, provided the download of a URL template did not
\* raise (both loads run before the first check, so a failed download
\* propagates even when the full page already failed to decode).
C4_DecodeFailureAfterDownload ==
    (DecodeFailed /\ raisedAt # 17) =>
        /\ pc # "raised"
        /\ ErrorOnlyNaming(IF fullFile = None THEN FullPagePath
                                              ELSE template_path_or_url)

C4_Witness ==
    /\ DecodeFailed /\ fullFile # None /\ tmplFile = None
    /\ StartsWithHttp(template_path_or_url)
    /\ Returned /\ HasKey(result[1], "error")

\* C8: in the sweep a scale (whose resized template is not empty) is skipped
\* exactly when the resized template is larger than the page in either
\* dimension; every other scale, equal sides included, is matched.
C8_SkippedIffLarger ==
    (BothDecoded /\ scaled # None) =>
        \A k \in 1..Len(outcomes) :
            NonEmptyAt(k) =>
                /\ outcomes[k] = "skipped" <=> LargerAt(k)
                /\ ~LargerAt(k) => outcomes[k] = "matched"

\* C9: after the sweep the tracked best score, location and scale are those
\* of one tried scale, the first in iteration order to reach the maximum
\* score over all tried scales.
C9_BestIsFirstMaximum ==
    (SweepOver /\ hi # None) =>
        /\ best_val = hi[1].score
        /\ best_scale = hi[1].scale
        /\ best_loc = Some(hi[1].loc)
        /\ best_match # None
        /\ best_match[1].confidence = best_val
        /\ best_match[1].template_scale = best_scale
        /\ <<best_match[1].x, best_match[1].y>> = best_loc[1]

\* C10 as stated: whenever a target viewport width is given the page is
\* rescaled to that width, its height by the same factor; without one the
\* page is used as decoded.
C10_RescaledWheneverWidthGiven ==
    scaled # None =>
        IF Truthy(viewport_width)
        THEN scaled[1] = <<viewport_width[1],
                           (full_page[1][2] * viewport_width[1]) \div full_page[1][1]>>
        ELSE scaled = full_page

\* C10 amended: the rescale happens exactly when both a non-zero viewport
\* width and a non-zero viewport height are given; the page then has that
\* width and height int(full_h * width / full_w) (cv2.resize raises when
\* that is 0), and the skip tests, match locations and crops are all within
\* the rescaled page; otherwise the page is used as decoded.
C10_RescaledWhenBothGiven ==
    /\ (BothDecoded /\ pc \notin {"start", "loaded"}) =>
         LET wanted == Truthy(viewport_width) /\ Truthy(viewport_height)
             new_h == (full_page[1][2] * viewport_width[1]) \div full_page[1][1]
         IN IF wanted
            THEN IF new_h > 0
                 THEN scaled = Some(<<viewport_width[1], new_h>>)
                 ELSE scaled = None /\ pc = "raised" /\ raisedAt = 61
            ELSE scaled = full_page
    /\ (scaled # None /\ best_match # None) =>
         /\ best_match[1].x + best_match[1].width <= scaled[1][1]
         /\ best_match[1].y + best_match[1].height <= scaled[1][2]
    /\ (scaled # None /\ written # None) =>
         \/ written[1] = template[1]
         \/ written[1] = <<Min(template[1][1], scaled[1][1]),
                           Min(template[1][2], scaled[1][2])>>

C10_Witness ==
    /\ Returned /\ BothDecoded /\ scaled # None /\ scaled # full_page
    /\ HasKey(result[1], "match_location")

----------------------------------------------------------------------------
\* smart-capture.py: analyze_capture_requirements, one invocation

\* Python truthiness of an optional str argument
TruthyStr(v) == v # None /\ v[1] # ""

\* pixel counts the heuristic may find in a region of `total` pixels
PixelSamples(total) == {0, total}

\* lines 49-65: dark_ratio > 0.05 or horizontal_lines > 10, where Canny
\* marks an edge pixel with 255
HeaderRule(dark_pixels, edge_pixels, total) ==
    100 * dark_pixels > 5 * total \/ 255 * edge_pixels > 10 * total

\* line 127
CaptureType(hv) == IF hv THEN "viewport" ELSE "scroll_match"

\* mutant: the scroll position is looked up whenever a full page is given
WantsScrollIgnoresHeader(hv, fpp) == TruthyStr(fpp)

\* line 132: the scroll position is looked up
WantsScroll(hv, fpp) == ~hv /\ TruthyStr(fpp)

\* line 136: a full page is asked for
WantsFullPage(hv, fpp) == ~WantsScroll(hv, fpp) /\ ~hv

Raise == [raise |-> TRUE]

\* lines 67-111: what find_scroll_position(full_page_path, url) may return;
\* Raise stands for an uncaught exception (urlretrieve, or cv2.resize to an
\* empty size)
FindScrollPosition(fp, tm, isUrl) ==
    (IF isUrl THEN {Raise} ELSE {}) \cup
    (IF fp = None \/ tm = None
     THEN {[scroll_y |-> 0, confidence |-> 0]}
     ELSE LET full_w == fp[1][1]
              full_h == fp[1][2]
              tw == tm[1][1]
              th == tm[1][2]
              rs == IF tw # full_w
                    THEN Resize(tm[1], <<full_w, (th * full_w) \div tw>>)
                    ELSE tm
          IN IF rs = None
             THEN {Raise}
             ELSE IF rs[1][2] >= full_h
             THEN {[scroll_y |-> 0, confidence |-> 0]}
             ELSE {[scroll_y |-> y, confidence |-> c,
                    match_x |-> 0, template_height |-> rs[1][2]] :
                       y \in LocSamples(full_h - rs[1][2]), c \in ScoreSamples})

CaptureInit ==
    /\ feedbucket_url \in {LocalShot, RemoteShot}
    /\ full_page_path \in {None, Some(""), Some(FullPagePath)}
    /\ \E shape \in Shapes(MaxTmpl) :
         /\ shotPil \in {None, Some(shape)}
         /\ shotCv \in {None, Some(shape)}
    /\ fullFile \in IF TruthyStr(full_page_path)
                    THEN {None} \cup {Some(s) : s \in Shapes(MaxPage)}
                    ELSE {None}
    /\ pc = "start"
    /\ dims = None /\ header_visible = None
    /\ result = None /\ raisedAt = 0
    /\ template_path_or_url = None /\ tmplFile = None
    /\ viewport_width = None /\ viewport_height = None
    /\ full_page = None /\ template = None /\ scaled = None
    /\ i = 1
    /\ best_match = None /\ best_val = InitBestVal
    /\ best_scale = InitBestScale /\ best_loc = None
    /\ written = None /\ outcomes = <<>> /\ hi = None
    /\ script = None /\ url = None /\ files = None /\ rpc = None /\ seen = None

\* line 119 and lines 22-30: get_image_dimensions
GetImageDimensions ==
    /\ pc = "start"
    /\ \E downloaded \in BOOLEAN :
         IF StartsWithHttp(feedbucket_url) /\ ~downloaded
         THEN pc' = "raised" /\ raisedAt' = 19 /\ dims' = None
         ELSE IF shotPil = None
         THEN pc' = "raised" /\ raisedAt' = 29 /\ dims' = None
         ELSE /\ pc' = "dims" /\ raisedAt' = 0
              /\ dims' = Some([width |-> shotPil[1][1], height |-> shotPil[1][2]])
    /\ UNCHANGED <<matchVars, raceVars, feedbucket_url, full_page_path, shotPil,
                   shotCv, header_visible, full_page, template, result>>

\* line 122 and lines 32-65: detect_header_visible
DetectHeaderVisible ==
    /\ pc = "dims"
    /\ \E downloaded \in BOOLEAN :
         IF StartsWithHttp(feedbucket_url) /\ ~downloaded
         THEN pc' = "raised" /\ raisedAt' = 19 /\ header_visible' = None
         ELSE /\ pc' = "header" /\ raisedAt' = 0
              /\ IF shotCv = None
                 THEN header_visible' = Some(TRUE)
                 ELSE LET total == Min(100, shotCv[1][2]) * shotCv[1][1]
                      IN \E dark \in PixelSamples(total), edge \in PixelSamples(total) :
                            header_visible' = Some(HeaderRule(dark, edge, total))
    /\ UNCHANGED <<matchVars, raceVars, feedbucket_url, full_page_path, shotPil,
                   shotCv, dims, full_page, template, result>>

\* lines 124-139: the capture instructions, with the call of
\* find_scroll_position at line 133
BuildInstructions ==
    /\ pc = "header"
    /\ LET hv == header_visible[1]
           base == [viewport_width |-> dims[1].width,
                    viewport_height |-> dims[1].height,
                    capture_type |-> CaptureType(hv),
                    header_visible |-> hv]
       IN IF WantsScroll(hv, full_page_path)
          THEN \E scroll_info \in FindScrollPosition(fullFile, shotCv,
                                                     StartsWithHttp(feedbucket_url)) :
                 IF HasKey(scroll_info, "raise")
                 THEN pc' = "raised" /\ raisedAt' = 133 /\ result' = None
                 ELSE /\ pc' = "done" /\ raisedAt' = 0
                      /\ result' = Some(base @@ [scroll_y |-> scroll_info.scroll_y,
                                                 match_confidence |-> scroll_info.confidence])
          ELSE /\ pc' = "done" /\ raisedAt' = 0
               /\ result' = IF WantsFullPage(hv, full_page_path)
                            THEN Some(base @@ [needs_full_page |-> TRUE])
                            ELSE Some(base)
    /\ UNCHANGED <<matchVars, raceVars, feedbucket_url, full_page_path, shotPil,
                   shotCv, dims, header_visible, full_page, template>>

CaptureNext == GetImageDimensions \/ DetectHeaderVisible \/ BuildInstructions

SpecCapture == CaptureInit /\ [][CaptureNext]_vars

\* C5: in every capture-instructions record, capture_type is 'viewport'
\* exactly when header_visible is true and 'scroll_match' otherwise; scroll_y
\* and match_confidence are present exactly when the header is not visible
\* and a full-page path was given; needs_full_page: true is present exactly
\* when the header is not visible and no full-page path was given; the two
\* groups never appear together and neither appears with a visible header.
C5_InstructionShape ==
    (pc = "done" /\ result # None) =>
        LET r == result[1]
            given == full_page_path # None /\ full_page_path[1] # ""
            scroll == {"scroll_y", "match_confidence"}
        IN /\ r.header_visible = header_visible[1]
           /\ r.capture_type = "viewport" <=> r.header_visible
           /\ r.capture_type = "scroll_match" <=> ~r.header_visible
           /\ scroll \subseteq DOMAIN r <=> (~r.header_visible /\ given)
           /\ scroll \cap DOMAIN r # {} => scroll \subseteq DOMAIN r
           /\ HasKey(r, "needs_full_page") <=> (~r.header_visible /\ ~given)
           /\ HasKey(r, "needs_full_page") => r.needs_full_page = TRUE
           /\ ~(HasKey(r, "needs_full_page") /\ scroll \cap DOMAIN r # {})
           /\ r.header_visible =>
                ~HasKey(r, "needs_full_page") /\ scroll \cap DOMAIN r = {}

C5_Witness ==
    /\ pc = "done" /\ result # None
    /\ HasKey(result[1], "scroll_y") /\ result[1].scroll_y > 0
    /\ ~result[1].header_visible

\* C7: when the screenshot cannot be loaded (and its download, if any, did
\* not fail), the run completes with capture_type 'viewport' and neither
\* scroll_y nor needs_full_page.
C7_LoadFailureGivesViewport ==
    (shotCv = None /\ pc \in {"done", "raised"} /\ raisedAt # 19) =>
        /\ pc = "done" /\ result # None
        /\ result[1].capture_type = "viewport"
        /\ ~HasKey(result[1], "scroll_y")
        /\ ~HasKey(result[1], "needs_full_page")

----------------------------------------------------------------------------
\* Concurrent invocations of the two scripts: their downloads to the fixed
\* temporary paths and the decodes that follow. Each process is one run of
\* one script on one URL; a file's content is named by the URL it came from.

NumProcs == 2
Procs == 1..NumProcs
Scripts == {"match-screenshot", "smart-capture"}
URLs == {"http://feedbucket/a.jpg", "http://feedbucket/b.jpg"}
StepNames == {"check", "detect", "template"}

\* the downloads a script performs, in order: load_image (match-screenshot);
\* get_image_dimensions, detect_header_visible, find_scroll_position
\* (smart-capture)
Downloads(scr) ==
    IF scr = "match-screenshot" THEN <<"template">>
                                ELSE <<"check", "detect", "template">>

\* match-screenshot.py line 23
LoadImageTempPath == "/tmp/feedbucket_template.jpg"

\* mutant: smart-capture keeps its template under a name of its own
CaptureTempPathOwnName(step) ==
    CASE step = "check" -> "/tmp/feedbucket_check.jpg"
      [] step = "detect" -> "/tmp/feedbucket_detect.jpg"
      [] step = "template" -> "/tmp/smart_capture_template.jpg"

\* smart-capture.py lines 25, 38, 75
CaptureTempPath(step) ==
    CASE step = "check" -> "/tmp/feedbucket_check.jpg"
      [] step = "detect" -> "/tmp/feedbucket_detect.jpg"
      [] step = "template" -> "/tmp/feedbucket_template.jpg"

TempPathOf(scr, step) ==
    IF scr = "match-screenshot" THEN LoadImageTempPath ELSE CaptureTempPath(step)

TempPaths == {TempPathOf(scr, st) : scr \in Scripts, st \in StepNames}

nonRaceVars == <<matchVars, captureVars, pc, full_page, template, result, raisedAt>>

CurStep(p) == Downloads(script[p])[rpc[p].k]
Running(p) == rpc[p].k <= Len(Downloads(script[p]))

RaceInit ==
    /\ script \in [Procs -> Scripts]
    /\ url \in [Procs -> URLs]
    /\ files = [f \in TempPaths |-> None]
    /\ rpc = [p \in Procs |-> [k |-> 1, phase |-> "idle"]]
    /\ seen = [p \in Procs |-> [st \in StepNames |-> None]]
    /\ fullFile = None /\ template_path_or_url = None /\ tmplFile = None
    /\ viewport_width = None /\ viewport_height = None
    /\ pc = "start"
    /\ full_page = None /\ template = None /\ scaled = None
    /\ i = 1
    /\ best_match = None /\ best_val = InitBestVal
    /\ best_scale = InitBestScale /\ best_loc = None
    /\ result = None /\ written = None /\ raisedAt = 0
    /\ outcomes = <<>> /\ hi = None
    /\ feedbucket_url = None /\ full_page_path = None /\ shotPil = None
    /\ shotCv = None /\ dims = None /\ header_visible = None

\* download_image(url, temp_path): urlretrieve overwrites the file
\* (match-screenshot.py 15-18, 24; smart-capture.py 17-20, 26, 39, 76)
Download(p) ==
    /\ Running(p) /\ rpc[p].phase = "idle"
    /\ files' = [files EXCEPT ![TempPathOf(script[p], CurStep(p))] = Some(url[p])]
    /\ rpc' = [rpc EXCEPT ![p].phase = "downloaded"]
    /\ UNCHANGED <<script, url, seen, nonRaceVars>>

\* the decode of the temporary file that follows the download
\* (match-screenshot.py 25; smart-capture.py 29, 42, 77)
Decode(p) ==
    /\ Running(p) /\ rpc[p].phase = "downloaded"
    /\ seen' = [seen EXCEPT ![p][CurStep(p)] = files[TempPathOf(script[p], CurStep(p))]]
    /\ rpc' = [rpc EXCEPT ![p] = [k |-> @.k + 1, phase |-> "idle"]]
    /\ UNCHANGED <<script, url, files, nonRaceVars>>

\* smart-capture.py 132: find_scroll_position is not called (the header is
\* visible or no full page was given), so the run ends after two downloads
NoScrollLookup(p) ==
    /\ Running(p) /\ rpc[p].phase = "idle"
    /\ script[p] = "smart-capture" /\ CurStep(p) = "template"
    /\ rpc' = [rpc EXCEPT ![p].k = @ + 1]
    /\ UNCHANGED <<script, url, files, seen, nonRaceVars>>

RaceNext == \E p \in Procs : Download(p) \/ Decode(p) \/ NoScrollLookup(p)

SpecRace == RaceInit /\ [][RaceNext]_vars

Pending(p) == Running(p) /\ rpc[p].phase = "downloaded"
PendingPath(p) == TempPathOf(script[p], CurStep(p))

\* C6: two concurrent invocations given different URLs, of the same script
\* or of the two scripts, that have both downloaded the same kind of image
\* and not yet decoded it, are about to decode the same file of the same
\* fixed path, which holds what the last of them to download wrote: one of
\* the two decodes the other's image.
C6_LastWriterWins ==
    \A p, q \in Procs :
        (p # q /\ url[p] # url[q] /\ Pending(p) /\ Pending(q)
           /\ CurStep(p) = CurStep(q)) =>
            /\ PendingPath(p) = PendingPath(q)
            /\ files[PendingPath(p)] \in {Some(url[p]), Some(url[q])}

\* an invocation of match-screenshot has decoded the image a concurrent
\* smart-capture run downloaded for another URL
C6_Witness ==
    \E p, q \in Procs :
        /\ script[p] = "match-screenshot" /\ script[q] = "smart-capture"
        /\ url[p] # url[q]
        /\ seen[p]["template"] = Some(url[q])

====
